---- MODULE Spec2Model ----
(***************************************************************************)
(* Model of meshoptimizer.hpp (meshoptimizer 1.0).                         *)
(*                                                                         *)
(* The header defines three inline quantization routines (quantizeUnorm,   *)
(* quantizeSnorm, quantizeHalf) and declares the optimizers and analyzers. *)
(* The inline routines are modelled from their code, bit for bit: 32-bit   *)
(* words are kept as two 16-bit halves, binary32 values as sign, 24-bit    *)
(* significand and exponent, and every float operation rounds the way      *)
(* IEEE-754 binary32 rounds (to nearest, ties to even).                    *)
(***************************************************************************)
EXTENDS Integers, Naturals, Sequences, FiniteSets, TLC

VARIABLES
    pc,             \* position of the call under study
    ui,             \* quantizeHalf: the 32 bits of the argument, [hi, lo] 16-bit halves
    src_half,       \* 16-bit half pattern the argument was widened from (-1: none)
    half,           \* quantizeHalf: the returned unsigned short (-1: not yet returned)
    v,              \* quantizeUnorm/quantizeSnorm: the float argument
    bits,           \* quantizeUnorm/quantizeSnorm: the bits argument
    eval_method,    \* FLT_EVAL_METHOD of the build: 0 = float, 2 = wider than float
    q,              \* quantizeUnorm/quantizeSnorm: the returned int
    indices,        \* index buffer (sequence of vertex indices)
    vertex_count,   \* number of vertices
    vertex_size,    \* bytes per vertex
    destination,    \* optimizePreTransform: destination[k] = source vertex stored at slot k
    fetched_before, \* bytes_fetched of analyzePreTransform on the caller's buffer
    fetched_after   \* bytes_fetched of analyzePreTransform after optimizePreTransform

vars == <<pc, ui, src_half, half, v, bits, eval_method, q, indices, vertex_count,
          vertex_size, destination, fetched_before, fetched_after>>

halfVars == <<ui, src_half, half>>
normVars == <<v, bits, eval_method, q>>
meshVars == <<indices, vertex_count, vertex_size, destination, fetched_before, fetched_after>>

----------------------------------------------------------------------------
(* Integer helpers *)

RECURSIVE Pow2(_)
Pow2(n) == IF n <= 0 THEN 1 ELSE 2 * Pow2(n - 1)

Abs(x) == IF x < 0 THEN 0 - x ELSE x

\* a >> n on an int: arithmetic shift, which is floor division
ShiftRight(a, n) == a \div Pow2(n)

\* a & b and a | b on non-negative ints, bit by bit
RECURSIVE BitAnd(_, _)
BitAnd(a, b) ==
    IF a = 0 \/ b = 0 THEN 0
    ELSE 2 * BitAnd(a \div 2, b \div 2) + (IF a % 2 = 1 /\ b % 2 = 1 THEN 1 ELSE 0)

RECURSIVE BitOr(_, _)
BitOr(a, b) ==
    IF a = 0 THEN b
    ELSE IF b = 0 THEN a
    ELSE 2 * BitOr(a \div 2, b \div 2) + (IF a % 2 = 1 \/ b % 2 = 1 THEN 1 ELSE 0)

----------------------------------------------------------------------------
(* Exact naturals of any size, as little-endian sequences of 12-bit limbs. *)
(* The products and aligned sums of binary32 arithmetic need up to 200     *)
(* bits, more than a 32-bit integer holds.                                 *)

RECURSIVE ToBig(_)
ToBig(n) == IF n = 0 THEN <<>> ELSE <<n % 4096>> \o ToBig(n \div 4096)

RECURSIVE FromBig(_)
FromBig(a) == IF a = <<>> THEN 0 ELSE Head(a) + 4096 * FromBig(Tail(a))

\* without the zero limbs above the highest non-zero limb
RECURSIVE BTrim(_)
BTrim(a) ==
    IF a = <<>> THEN <<>>
    ELSE IF a[Len(a)] = 0 THEN BTrim(SubSeq(a, 1, Len(a) - 1))
    ELSE a

RECURSIVE IntBitLen(_)
IntBitLen(n) == IF n = 0 THEN 0 ELSE 1 + IntBitLen(n \div 2)

\* number of bits of a (trimmed)
BBitLen(a) ==
    IF a = <<>> THEN 0 ELSE 12 * (Len(a) - 1) + IntBitLen(a[Len(a)])

\* bit i of a, counted from 1 at the low end
BBit(a, i) ==
    LET k == (i - 1) \div 12 + 1
    IN  IF i < 1 \/ k > Len(a) THEN 0
        ELSE (a[k] \div Pow2((i - 1) % 12)) % 2

LimbAt(a, k) == IF k >= 1 /\ k <= Len(a) THEN a[k] ELSE 0

\* a * 2^n
BShl(a, n) ==
    LET w == n \div 12
        r == n % 12
    IN  IF a = <<>> \/ n <= 0 THEN a
        ELSE BTrim([j \in 1..(Len(a) + w + 1) |->
                 ((LimbAt(a, j - w) * Pow2(r)) % 4096)
                 + (LimbAt(a, j - w - 1) \div Pow2(12 - r))])

\* floor(a / 2^n)
BShr(a, n) ==
    LET w == n \div 12
        r == n % 12
    IN  IF n <= 0 THEN a
        ELSE IF w >= Len(a) THEN <<>>
        ELSE BTrim([j \in 1..(Len(a) - w) |->
                 (LimbAt(a, j + w) \div Pow2(r))
                 + ((LimbAt(a, j + w + 1) % Pow2(r)) * Pow2(12 - r))])

\* a mod 2^n
BLow(a, n) ==
    LET w == n \div 12
        r == n % 12
    IN  IF n <= 0 THEN <<>>
        ELSE IF w >= Len(a) THEN a
        ELSE BTrim([j \in 1..(w + 1) |-> IF j <= w THEN a[j] ELSE a[j] % Pow2(r)])

RECURSIVE BAddC(_, _, _)
BAddC(a, b, c) ==
    IF a = <<>> /\ b = <<>> THEN (IF c = 0 THEN <<>> ELSE <<c>>)
    ELSE LET x == IF a = <<>> THEN 0 ELSE Head(a)
             y == IF b = <<>> THEN 0 ELSE Head(b)
             t == x + y + c
         IN  <<t % 4096>> \o BAddC(IF a = <<>> THEN a ELSE Tail(a),
                                       IF b = <<>> THEN b ELSE Tail(b),
                                       t \div 4096)

BAdd(a, b) == BAddC(a, b, 0)

\* -1, 0, 1 as a < b, a = b, a > b (both trimmed)
RECURSIVE BCmpFrom(_, _, _)
BCmpFrom(a, b, i) ==
    IF i = 0 THEN 0
    ELSE IF a[i] > b[i] THEN 1
    ELSE IF a[i] < b[i] THEN -1
    ELSE BCmpFrom(a, b, i - 1)

BCmp(a, b) ==
    IF Len(a) > Len(b) THEN 1
    ELSE IF Len(a) < Len(b) THEN -1
    ELSE BCmpFrom(a, b, Len(a))

BLe(a, b) == BCmp(a, b) <= 0

\* a - b for a >= b
RECURSIVE BSubB(_, _, _)
BSubB(a, b, br) ==
    IF a = <<>> THEN <<>>
    ELSE LET y == IF b = <<>> THEN 0 ELSE Head(b)
             t == Head(a) - y - br
         IN  <<t % 4096>> \o BSubB(Tail(a), IF b = <<>> THEN b ELSE Tail(b),
                                       IF t < 0 THEN 1 ELSE 0)

BAbsDiff(a, b) == IF BLe(b, a) THEN BTrim(BSubB(a, b, 0)) ELSE BTrim(BSubB(b, a, 0))

\* a * s + c for one limb s
RECURSIVE BMulLimb(_, _, _)
BMulLimb(a, s, c) ==
    IF a = <<>> THEN (IF c = 0 THEN <<>> ELSE <<c>>)
    ELSE LET t == Head(a) * s + c
         IN  <<t % 4096>> \o BMulLimb(Tail(a), s, t \div 4096)

RECURSIVE BMul(_, _)
BMul(a, b) ==
    IF a = <<>> \/ b = <<>> THEN <<>>
    ELSE LET rest == BMul(a, Tail(b))
         IN  BTrim(BAdd(BMulLimb(a, Head(b), 0),
                        IF rest = <<>> THEN <<>> ELSE <<0>> \o rest))

----------------------------------------------------------------------------
(* Floating-point values and operations.  A value is [neg, a, e]: a sign,  *)
(* a natural a (in limbs) and an exponent, standing for (+/-) a * 2^e.     *)
(* Infinities and NaN are not represented: no operation below reaches them *)
(* from the arguments used.                                                *)

Max(x, y) == IF x >= y THEN x ELSE y
Min(x, y) == IF x <= y THEN x ELSE y

Fl(neg, m, e) == [neg |-> neg, a |-> ToBig(m), e |-> e]

IsZero(x) == x.a = <<>>

\* the magnitudes of x and y as naturals in units of the lower exponent
MagOf(x, y) == BShl(x.a, x.e - Min(x.e, y.e))

MagCmp(x, y) == BCmp(MagOf(x, y), MagOf(y, x))

\* x <= y
FloatLe(x, y) ==
    IF IsZero(x) /\ IsZero(y) THEN TRUE
    ELSE IF IsZero(x) THEN ~y.neg
    ELSE IF IsZero(y) THEN x.neg
    ELSE IF x.neg /\ ~y.neg THEN TRUE
    ELSE IF ~x.neg /\ y.neg THEN FALSE
    ELSE IF x.neg THEN MagCmp(x, y) >= 0
    ELSE MagCmp(x, y) <= 0

\* x rounded to nearest, ties to even, in a format of p significand bits whose
\* last place is never below 2^emin
RoundTo(x, p, emin) ==
    LET n    == BBitLen(x.a)
        drop == Max(Max(n - p, emin - x.e), 0)
    IN  IF drop = 0 \/ IsZero(x) THEN x
        ELSE LET kept   == BShr(x.a, drop)
                 rbit   == BBit(x.a, drop)
                 sticky == BLow(x.a, drop - 1) # <<>>
                 odd    == BBit(kept, 1) = 1
                 up     == rbit = 1 /\ (sticky \/ odd)
             IN  [neg |-> x.neg,
                  a   |-> IF up THEN BAdd(kept, <<1>>) ELSE kept,
                  e   |-> x.e + drop]

\* the three values of FLT_EVAL_METHOD: operations evaluated in float (0),
\* in double (1) or in long double (2)
EvalRound(x, method) ==
    IF method = 0 THEN RoundTo(x, 24, -149)
    ELSE IF method = 1 THEN RoundTo(x, 53, -1074)
    ELSE RoundTo(x, 64, -16445)

\* exact product and exact sum
ExactMul(x, y) ==
    [neg |-> (x.neg # y.neg), a |-> BMul(x.a, y.a), e |-> x.e + y.e]

ExactAdd(x, y) ==
    LET e  == Min(x.e, y.e)
        mx == MagOf(x, y)
        my == MagOf(y, x)
    IN  IF IsZero(x) THEN y
        ELSE IF IsZero(y) THEN x
        ELSE IF x.neg = y.neg THEN [neg |-> x.neg, a |-> BAdd(mx, my), e |-> e]
        ELSE [neg |-> IF BLe(my, mx) THEN x.neg ELSE y.neg,
              a   |-> BAbsDiff(mx, my), e |-> e]

FloatMul(x, y, method) == EvalRound(ExactMul(x, y), method)
FloatAdd(x, y, method) == EvalRound(ExactAdd(x, y), method)

\* int(x): the fraction is discarded (truncation toward zero)
FloatToInt(x) ==
    LET mag == IF x.e >= 0 THEN BShl(x.a, x.e) ELSE BShr(x.a, 0 - x.e)
    IN  IF x.neg THEN 0 - FromBig(mag) ELSE FromBig(mag)

FloatZero == Fl(FALSE, 0, 0)
FloatOne == Fl(FALSE, 1, 0)
FloatMinusOne == Fl(TRUE, 1, 0)
FloatHalf == Fl(FALSE, 1, -1)
FloatMinusHalf == Fl(TRUE, 1, -1)

\* float(n) for an int of at most 24 bits
FloatFromInt(n) == Fl(n < 0, Abs(n), 0)

----------------------------------------------------------------------------
(* quantizeUnorm and quantizeSnorm *)

\* v = (v >= 0) ? v : 0;  v = (v <= 1) ? v : 1;
ClampUnorm(x) ==
    LET lo == IF FloatLe(FloatZero, x) THEN x ELSE FloatZero
    IN  IF FloatLe(lo, FloatOne) THEN lo ELSE FloatOne

quantizeUnorm(x, b, method) ==
    LET scale == FloatFromInt(Pow2(b) - 1)
        c     == ClampUnorm(x)
    IN  FloatToInt(FloatAdd(FloatMul(c, scale, method), FloatHalf, method))

\* v = (v >= -1) ? v : -1;  v = (v <= +1) ? v : +1;
ClampSnorm(x) ==
    LET lo == IF FloatLe(FloatMinusOne, x) THEN x ELSE FloatMinusOne
    IN  IF FloatLe(lo, FloatOne) THEN lo ELSE FloatOne

quantizeSnorm(x, b, method) ==
    LET scale == FloatFromInt(Pow2(b - 1) - 1)
        round == IF FloatLe(FloatZero, x) THEN FloatHalf ELSE FloatMinusHalf
        c     == ClampSnorm(x)
    IN  FloatToInt(FloatAdd(FloatMul(c, scale, method), round, method))

----------------------------------------------------------------------------
(* quantizeHalf *)

\* (ui >> 16) & 0x8000: ui >> 16 is the high half of the word
HalfSign(w) == BitAnd(w.hi, 32768)

\* ui & 0x7fffffff: the high half loses bit 15, the low half is kept
HalfEm(w) == BitAnd(w.hi, 32767) * 65536 + w.lo

\* (em - (112 << 23) + (1 << 12)) >> 13
BiasAndRound_Truncate(em) == ShiftRight(em - 112 * Pow2(23), 13)
BiasAndRound_Bias113(em) == ShiftRight(em - 113 * Pow2(23) + Pow2(12), 13)
BiasAndRound(em) == ShiftRight(em - 112 * Pow2(23) + Pow2(12), 13)

\* h = (em < (113 << 23)) ? 0 : h
FlushUnderflow(em, h) == IF em < 113 * Pow2(23) THEN 0 ELSE h

\* h = (em >= (143 << 23)) ? 0x7c00 : h
SaturateOverflow_From144(em, h) == IF em >= 144 * Pow2(23) THEN 31744 ELSE h
SaturateOverflow(em, h) == IF em >= 143 * Pow2(23) THEN 31744 ELSE h

\* h = (em > (255 << 23)) ? 0x7e00 : h
QuietNaN_Missing(em, h) == h
QuietNaN(em, h) == IF em > 255 * Pow2(23) THEN 32256 ELSE h

\* (unsigned short)(s | h)
PackHalf(s, h) == BitOr(s, h) % 65536

quantizeHalf(w) ==
    LET s  == HalfSign(w)
        em == HalfEm(w)
        h0 == BiasAndRound(em)
        h1 == FlushUnderflow(em, h0)
        h2 == SaturateOverflow(em, h1)
        h3 == QuietNaN(em, h2)
    IN  PackHalf(s, h3)

----------------------------------------------------------------------------
(* Arguments of quantizeHalf *)

\* fields of a binary32 word and of a binary16 word
FloatSignBit(w) == w.hi \div 32768
FloatExp(w) == (w.hi % 32768) \div 128
FloatMant(w) == (w.hi % 128) * 65536 + w.lo
MakeFloat(sign, e, m) == [hi |-> sign * 32768 + e * 128 + m \div 65536, lo |-> m % 65536]
IsNaN(w) == FloatExp(w) = 255 /\ FloatMant(w) # 0

HalfSignBit(h) == h \div 32768
HalfExp(h) == (h % 32768) \div 1024
HalfMant(h) == h % 1024

\* Mantissas around the places where the conversion changes behaviour: 0,
\* the guard bit (0x1000), one half ulp (0x2000), the tie above it (0x3000),
\* 0x2AAAAA, the middle, 0x555555, the largest half mantissa (0x7FE000), the
\* tie that carries into the exponent (0x7FF000) and the largest mantissa,
\* each with its neighbours up to MantSpread away.
MantSpread == 2
MantKeys == {0, 4096, 8192, 12288, 2796202, 4194304, 5592405, 8380416, 8384512, 8388607}
MantSamples ==
    {m \in {k + d : k \in MantKeys, d \in (0 - MantSpread)..MantSpread} :
        m >= 0 /\ m < 8388608}

HalfArguments == {MakeFloat(s, e, m) : s \in {0, 1}, e \in 0..255, m \in MantSamples}

\* the binary32 word holding exactly the value of the half pattern h: a signed
\* zero, a normal number (exponent field 1..30) or a signed infinity
RepresentableHalfs ==
    {h \in 0..65535 : HalfExp(h) \in 1..30 \/ HalfMant(h) = 0}

HalfToFloat(h) ==
    IF HalfExp(h) = 0 THEN MakeFloat(HalfSignBit(h), 0, 0)
    ELSE IF HalfExp(h) = 31 THEN MakeFloat(HalfSignBit(h), 255, 0)
    ELSE MakeFloat(HalfSignBit(h), HalfExp(h) + 112, HalfMant(h) * 8192)

----------------------------------------------------------------------------
(* States and actions *)

NoFloat == [neg |-> FALSE, m |-> 0, e |-> 0]

IdleHalf == ui = [hi |-> 0, lo |-> 0] /\ src_half = -1 /\ half = -1
IdleNorm == v = NoFloat /\ bits = 0 /\ eval_method = 0 /\ q = 0
IdleMesh ==
    /\ indices = <<>> /\ vertex_count = 0 /\ vertex_size = 0
    /\ destination = <<>> /\ fetched_before = -1 /\ fetched_after = -1

\* a call of quantizeHalf on any of the sampled words
InitHalf ==
    /\ pc = "half_arg"
    /\ ui \in HalfArguments
    /\ src_half = -1
    /\ half = -1
    /\ IdleNorm /\ IdleMesh

\* a half pattern about to be widened to binary32 and quantized back
InitRoundTrip ==
    /\ pc = "widen"
    /\ src_half \in RepresentableHalfs
    /\ ui = [hi |-> 0, lo |-> 0]
    /\ half = -1
    /\ IdleNorm /\ IdleMesh

WidenHalf ==
    /\ pc = "widen"
    /\ ui' = HalfToFloat(src_half)
    /\ pc' = "half_arg"
    /\ UNCHANGED <<src_half, half, normVars, meshVars>>

CallQuantizeHalf ==
    /\ pc = "half_arg"
    /\ half' = quantizeHalf(ui)
    /\ pc' = "half_done"
    /\ UNCHANGED <<ui, src_half, normVars, meshVars>>

NextHalf == CallQuantizeHalf
SpecHalf == InitHalf /\ [][NextHalf]_vars

NextRoundTrip == WidenHalf \/ CallQuantizeHalf
SpecRoundTrip == InitRoundTrip /\ [][NextRoundTrip]_vars

----------------------------------------------------------------------------
(* Claims about quantizeHalf *)

\* C1 as stated: every NaN argument, whatever its sign bit, returns exactly
\* 0x7E00 (the sign bit of a NaN is dropped).
C1_NaNSignDropped ==
    (pc = "half_done" /\ IsNaN(ui)) => half = 32256

\* C1 amended: every NaN argument returns the quiet NaN 0x7E00 with the
\* argument's sign bit copied to bit 15: 0x7E00 for a NaN with the sign bit
\* clear, 0xFE00 for a NaN with the sign bit set.
C1_NaNSignKept ==
    (pc = "half_done" /\ IsNaN(ui)) => half = 32256 + 32768 * FloatSignBit(ui)

C1_Witness ==
    pc = "half_done" /\ IsNaN(ui) /\ FloatSignBit(ui) = 1 /\ half = 65024

\* C2: for every non-NaN argument bit 15 of the result is the argument's sign
\* bit; below 2^-14 (biased exponent < 113) the low 15 bits are 0, from 2^16
\* on (biased exponent >= 143, infinity included) they are 0x7C00.
C2_SignFlushSaturate ==
    (pc = "half_done" /\ ~IsNaN(ui)) =>
        /\ HalfSignBit(half) = FloatSignBit(ui)
        /\ FloatExp(ui) < 113 => half % 32768 = 0
        /\ FloatExp(ui) >= 143 => half % 32768 = 31744

C2_Witness ==
    /\ pc = "half_done" /\ FloatSignBit(ui) = 1
    /\ FloatExp(ui) = 143 /\ FloatMant(ui) = 8192 /\ half = 64512

\* C3: a half pattern that encodes a signed zero, a normal number or a signed
\* infinity, widened to the binary32 word of the same value, quantizes back to
\* the same 16 bits.
C3_RoundTrip ==
    pc = "half_done" => half = src_half

\* 65504.0 = 0x477FE000 comes back as 0x7BFF
C3_Witness ==
    /\ pc = "half_done" /\ src_half = 31743
    /\ ui = [hi |-> 18303, lo |-> 57344] /\ half = 31743

\* the value of the returned half h is within 5e-4 of the value of w,
\* relative to w; both are counted in units of the last place of w
HalfWithinRelativeError(w, h) ==
    LET sig   == 8388608 + FloatMant(w)
        shift == HalfExp(h) + 125 - FloatExp(w)
    IN  /\ HalfSignBit(h) = FloatSignBit(w)
        /\ HalfExp(h) \in 1..30
        /\ shift \in {13, 14}
        /\ Abs((1024 + HalfMant(h)) * Pow2(shift) - sig) <= sig \div 2000

\* magnitude in [2^-14, 65504]: from 113 << 23 to 0x477FE000
InHalfRange(w) ==
    /\ FloatExp(w) >= 113
    /\ FloatExp(w) * 8388608 + FloatMant(w) <= 1199562752

\* C4: for every finite argument of magnitude in [2^-14, 65504] the value of
\* the result differs from the argument by at most 5e-4 times the argument.
C4_RelativeError ==
    (pc = "half_done" /\ InHalfRange(ui)) => HalfWithinRelativeError(ui, half)

\* a tie: 1 + 2^-11 lies halfway between the halves 0x3C00 and 0x3C01
C4_Witness ==
    /\ pc = "half_done" /\ FloatSignBit(ui) = 0
    /\ FloatExp(ui) = 127 /\ FloatMant(ui) = 4096 /\ half = 15361

----------------------------------------------------------------------------
(* Arguments of quantizeUnorm and quantizeSnorm *)

\* the multiples of 2^-GridBits from 0 to 2
GridBits == 4
GridValues == {[neg |-> FALSE, m |-> n, e |-> 0 - GridBits] : n \in 0..Pow2(GridBits + 1)}

\* binary32 values next to the places where rounding decides the result:
\* the neighbours of 1/2 and of 1, values whose product with the scale falls
\* just below a half (0x3E2AAAAA, 0x3B008080, 0x37000080), the smallest
\* denormal and a value far above 1
EdgeValues ==
    { [neg |-> FALSE, m |-> 16777215, e |-> -25],
      [neg |-> FALSE, m |-> 8388609,  e |-> -24],
      [neg |-> FALSE, m |-> 16777215, e |-> -24],
      [neg |-> FALSE, m |-> 8388609,  e |-> -23],
      [neg |-> FALSE, m |-> 11184810, e |-> -26],
      [neg |-> FALSE, m |-> 8421504,  e |-> -32],
      [neg |-> FALSE, m |-> 8388736,  e |-> -40],
      [neg |-> FALSE, m |-> 1,        e |-> -149],
      [neg |-> FALSE, m |-> 8388608,  e |-> 42] }

NormArguments ==
    {[neg |-> s, m |-> x.m, e |-> x.e] : s \in BOOLEAN, x \in GridValues \cup EdgeValues}

ArgValue(x) == Fl(x.neg, x.m, x.e)

InitNorm ==
    /\ pc = "norm_arg"
    /\ v \in NormArguments
    /\ bits \in 1..16
    /\ eval_method \in {0, 1, 2}
    /\ q = 0
    /\ IdleHalf /\ IdleMesh

CallQuantizeUnorm ==
    /\ pc = "norm_arg"
    /\ q' = quantizeUnorm(ArgValue(v), bits, eval_method)
    /\ pc' = "unorm_done"
    /\ UNCHANGED <<v, bits, eval_method, halfVars, meshVars>>

CallQuantizeSnorm ==
    /\ pc = "norm_arg"
    /\ bits >= 2
    /\ q' = quantizeSnorm(ArgValue(v), bits, eval_method)
    /\ pc' = "snorm_done"
    /\ UNCHANGED <<v, bits, eval_method, halfVars, meshVars>>

NextNorm == CallQuantizeUnorm \/ CallQuantizeSnorm
SpecNorm == InitNorm /\ [][NextNorm]_vars

----------------------------------------------------------------------------
(* Claims about quantizeUnorm and quantizeSnorm, in exact arithmetic *)

\* floor(|x| + 1/2) for an exact value x
RoundMagnitude(x) ==
    LET y == ExactAdd([neg |-> FALSE, a |-> x.a, e |-> x.e], FloatHalf)
    IN  FromBig(IF y.e >= 0 THEN BShl(y.a, y.e) ELSE BShr(y.a, 0 - y.e))

\* C5: quantizeUnorm(v, bits) = round(c * (2^bits - 1)) with c = v clamped to
\* [0,1] and round(x) = floor(x + 1/2); so the result lies in 0..2^bits - 1,
\* is 0 for v <= 0 and 2^bits - 1 for v >= 1.
C5_UnormIsExactRound ==
    pc = "unorm_done" =>
        LET x == ArgValue(v)
            s == Pow2(bits) - 1
        IN  /\ q = RoundMagnitude(ExactMul(ClampUnorm(x), FloatFromInt(s)))
            /\ q \in 0..s
            /\ FloatLe(x, FloatZero) => q = 0
            /\ FloatLe(FloatOne, x) => q = s

\* C6: quantizeSnorm(v, bits) = c * (2^(bits-1) - 1) rounded to nearest, ties
\* away from zero, with c = v clamped to [-1,1]; so the result lies in
\* -(2^(bits-1) - 1)..2^(bits-1) - 1.
C6_SnormIsExactRound ==
    pc = "snorm_done" =>
        LET x == ClampSnorm(ArgValue(v))
            s == Pow2(bits - 1) - 1
            r == RoundMagnitude(ExactMul(x, FloatFromInt(s)))
        IN  /\ q = (IF x.neg THEN 0 - r ELSE r)
            /\ q \in (0 - s)..s

\* |q / s - x| <= 1 / 2^k for an int q, a scale s > 0 and an exact value x:
\* with x = (+/-) a * 2^e, e <= 0, this is |q * 2^-e -/+ a * s| * 2^k <= s * 2^-e
ReconstructionWithin(qq, s, x, k) ==
    LET sh   == 0 - x.e
        qs   == BShl(ToBig(Abs(qq)), sh)
        xs   == BMul(x.a, ToBig(s))
        same == qq = 0 \/ IsZero(x) \/ ((qq < 0) = x.neg)
        dist == IF same THEN BAbsDiff(qs, xs) ELSE BAdd(qs, xs)
    IN  BLe(BShl(dist, k), BShl(ToBig(s), sh))

InUnitRange(x) == FloatLe(FloatZero, x) /\ FloatLe(x, FloatOne)
InSignedUnitRange(x) == FloatLe(FloatMinusOne, x) /\ FloatLe(x, FloatOne)

\* C7: for v in [0,1] the reconstruction q / (2^bits - 1) of
\* q = quantizeUnorm(v, bits) is within 1 / 2^(bits+1) of v.
C7_UnormReconstructionError ==
    (pc = "unorm_done" /\ InUnitRange(ArgValue(v))) =>
        ReconstructionWithin(q, Pow2(bits) - 1, ArgValue(v), bits + 1)

\* C8: for v in [-1,1] the reconstruction q / (2^(bits-1) - 1) of
\* q = quantizeSnorm(v, bits) is within 1 / 2^bits of v.
C8_SnormReconstructionError ==
    (pc = "snorm_done" /\ InSignedUnitRange(ArgValue(v))) =>
        ReconstructionWithin(q, Pow2(bits - 1) - 1, ArgValue(v), bits)

----------------------------------------------------------------------------
(* analyzePreTransform and optimizePreTransform.  The header declares them *)
(* and gives no body; they are modelled from the specification: a          *)
(* direct-mapped cache of 16 lines of 64 bytes, and a renumbering of the   *)
(* vertices in order of first reference.                                   *)

CacheLineSize == 64
CacheLineCount == 16

EmptyCache == [slot \in 0..(CacheLineCount - 1) |-> -1]

\* first and last cache line of the byte range [i * size, (i + 1) * size)
FirstLine(i, size) == (i * size) \div CacheLineSize
LastLine_Inclusive(i, size) == ((i + 1) * size) \div CacheLineSize
LastLine(i, size) == ((i + 1) * size - 1) \div CacheLineSize

\* the lines first..last touched in order: a line whose tag is not at its
\* slot adds a line of bytes and replaces the slot's tag
RECURSIVE TouchLines(_, _, _, _)
TouchLines(cache, bytes, line, last) ==
    IF line > last THEN [cache |-> cache, bytes_fetched |-> bytes]
    ELSE IF cache[line % CacheLineCount] = line
         THEN TouchLines(cache, bytes, line + 1, last)
         ELSE TouchLines([cache EXCEPT ![line % CacheLineCount] = line],
                         bytes + CacheLineSize, line + 1, last)

\* the indices from position k on, in order
RECURSIVE FetchFrom(_, _, _, _, _)
FetchFrom(cache, bytes, idx, k, size) ==
    IF k > Len(idx) THEN bytes
    ELSE LET st == TouchLines(cache, bytes,
                              FirstLine(idx[k], size), LastLine(idx[k], size))
         IN  FetchFrom(st.cache, st.bytes_fetched, idx, k + 1, size)

\* bytes_fetched of analyzePreTransform(indices, index_count, vertex_count, vertex_size)
analyzePreTransform(idx, size) == FetchFrom(EmptyCache, 0, idx, 1, size)

\* the vertices in order of first reference
RECURSIVE FirstReferences(_, _, _)
FirstReferences(idx, k, seen) ==
    IF k > Len(idx) THEN seen
    ELSE IF \E j \in 1..Len(seen) : seen[j] = idx[k]
         THEN FirstReferences(idx, k + 1, seen)
         ELSE FirstReferences(idx, k + 1, Append(seen, idx[k]))

\* the vertices from i on that are not in used, in their original order
RECURSIVE Unreferenced(_, _, _)
Unreferenced(i, count, used) ==
    IF i >= count THEN <<>>
    ELSE IF i \in used THEN Unreferenced(i + 1, count, used)
    ELSE <<i>> \o Unreferenced(i + 1, count, used)

\* destination[k + 1] is the source vertex copied to slot k of the new buffer
VertexOrder(idx, count) ==
    LET refs == FirstReferences(idx, 1, <<>>)
    IN  refs \o Unreferenced(0, count, {refs[j] : j \in 1..Len(refs)})

\* the new index of source vertex old: the slot it was copied to
RemapIndex_Inverse(order, old) == order[old + 1]
RemapIndex(order, old) == (CHOOSE k \in 1..Len(order) : order[k] = old) - 1

\* the index buffer rewritten in place
RewriteIndices(idx, order) == [k \in 1..Len(idx) |-> RemapIndex(order, idx[k])]

----------------------------------------------------------------------------
(* Meshes *)

MaxVertices == 4
TriangleCounts == {1, 2}
VertexSizes == {16, 48, 63, 64, 100, 512}

ReferencedCount(idx) == Cardinality({idx[k] : k \in 1..Len(idx)})

CeilDiv(x, y) == (x + y - 1) \div y

InitFetch ==
    /\ pc = "mesh_arg"
    /\ vertex_size \in VertexSizes
    /\ vertex_count \in 1..MaxVertices
    /\ \E t \in TriangleCounts : indices \in [1..(3 * t) -> 0..(vertex_count - 1)]
    /\ destination = <<>>
    /\ fetched_before = -1
    /\ fetched_after = -1
    /\ IdleHalf /\ IdleNorm

\* analyzePreTransform on the caller's index buffer
AnalyzeOriginal ==
    /\ pc = "mesh_arg"
    /\ fetched_before' = analyzePreTransform(indices, vertex_size)
    /\ pc' = "analyzed"
    /\ UNCHANGED <<indices, vertex_count, vertex_size, destination, fetched_after,
                   halfVars, normVars>>

\* optimizePreTransform: fills destination and rewrites indices in place
CallOptimizePreTransform ==
    /\ pc = "analyzed"
    /\ destination' = VertexOrder(indices, vertex_count)
    /\ indices' = RewriteIndices(indices, destination')
    /\ pc' = "optimized"
    /\ UNCHANGED <<vertex_count, vertex_size, fetched_before, fetched_after,
                   halfVars, normVars>>

\* analyzePreTransform on the rewritten index buffer
AnalyzeOptimized ==
    /\ pc = "optimized"
    /\ fetched_after' = analyzePreTransform(indices, vertex_size)
    /\ pc' = "reanalyzed"
    /\ UNCHANGED <<indices, vertex_count, vertex_size, destination, fetched_before,
                   halfVars, normVars>>

NextFetch == AnalyzeOriginal \/ CallOptimizePreTransform \/ AnalyzeOptimized
SpecFetch == InitFetch /\ [][NextFetch]_vars

----------------------------------------------------------------------------
(* Claims about the fetch analyzer and optimizer *)

\* C9 as stated: bytes_fetched <= index_count * ceil(vertex_size / 64) * 64
\* for every well-formed index buffer and every vertex size, also those that
\* are no multiple of 64.
C9_TrivialBound ==
    pc = "analyzed" =>
        fetched_before <= Len(indices) * CeilDiv(vertex_size, CacheLineSize) * CacheLineSize

\* C9 amended: a vertex touches at most ceil(vertex_size / 64) + 1 lines, so
\* bytes_fetched <= index_count * (ceil(vertex_size / 64) + 1) * 64; the
\* bound index_count * ceil(vertex_size / 64) * 64 holds when vertex_size
\* divides 64 or is a multiple of 64, where no vertex straddles a further line.
C9_StraddleBound ==
    pc = "analyzed" =>
        /\ fetched_before <=
              Len(indices) * (CeilDiv(vertex_size, CacheLineSize) + 1) * CacheLineSize
        /\ (CacheLineSize % vertex_size = 0 \/ vertex_size % CacheLineSize = 0) =>
              fetched_before <=
                  Len(indices) * CeilDiv(vertex_size, CacheLineSize) * CacheLineSize

\* three vertices of 63 bytes, each straddling a line boundary: 4 lines for 3 indices
C9_Witness ==
    /\ pc = "analyzed" /\ vertex_size = 63 /\ indices = <<1, 2, 3>>
    /\ fetched_before = 256

\* C10 as stated: after optimizePreTransform the analyzer returns no more
\* bytes_fetched than on the original index buffer.
C10_NeverWorse ==
    pc = "reanalyzed" => fetched_after <= fetched_before

\* C10 amended: the same, provided the referenced vertices fit in the cache
\* after the renumbering (distinct referenced vertices * vertex_size <= 16 * 64),
\* so that no line evicts another.
C10_NeverWorseWithinCache ==
    (pc = "reanalyzed"
        /\ ReferencedCount(indices) * vertex_size <= CacheLineCount * CacheLineSize) =>
            fetched_after <= fetched_before

\* vertices 1 and 2 of 48 bytes span three lines; renumbered 0 and 1 they span two
C10_Witness ==
    /\ pc = "reanalyzed" /\ vertex_size = 48 /\ destination = <<1, 2, 0, 3>>
    /\ indices = <<0, 1, 1>> /\ fetched_before = 192 /\ fetched_after = 128

====
